---- MODULE Spec2Model ----
(***************************************************************************)
(* serverHealth: the probe cache (HealthCollector::s_speedResult), its     *)
(* refresher thread (main.cpp speedThread running updateSpeedTestCache)    *)
(* and the request handlers (getHealthJson), with the pure collectors and  *)
(* the JSON helpers as operators.                                          *)
(*                                                                         *)
(* Rates are whole Mbit/s; a std::string is the sequence of its character  *)
(* codes; a formatted timestamp is the one digit of the second it was      *)
(* formatted from.                                                         *)
(***************************************************************************)
EXTENDS Integers, Sequences, FiniteSets, TLC

\* ------------------------------------------------------------------------
\* Bounds of the model
\* ------------------------------------------------------------------------

\* std::time() returns a second in 1..MaxTime (wall clock: not monotonic)
MaxTime == 1
\* /proc/meminfo has up to MaxMemLines lines with values up to MaxKb
MaxMemLines == 3
MaxKb == 2
\* /proc/mounts has up to MaxMounts lines
MaxMounts == 2
\* /proc/net/dev and /proc/diskstats have up to MaxRows lines of counters
MaxRows == 2
\* a container status is made of up to MaxParts pieces
MaxParts == 4
\* a tool prints rates up to MaxRate (Mbit/s), curl up to MaxRate * 125000 B/s
MaxRate == 1
\* speedtest-cli prints at most MaxLines lines
MaxLines == 2
\* an argument of escapeJson has at most MaxStr characters
MaxStr == 3
\* a counter of /proc/stat is in 0..MaxCounter
MaxCounter == 1

\* ------------------------------------------------------------------------
\* Threads
\* ------------------------------------------------------------------------

\* the detached background thread of main()
speedThread == "speedThread"
\* the server's worker threads, each running the /api/health handler
Handlers == {"h1", "h2"}
\* std::mutex not owned by any thread
Free == "free"

VARIABLES
    s_speedResult,   \* HealthCollector::s_speedResult
    s_speedMutex,    \* HealthCollector::s_speedMutex: its owner, or Free
    gmtimeBuf,       \* the static struct tm std::gmtime fills and returns
    rpc,             \* speedThread's position
    res,             \* updateSpeedTestCache: local res
    hpc,             \* each handler's position
    speed,           \* getHealthJson: local speed
    written,         \* history: the first refresh cycle has stored its result
    lastStored,      \* history: the cache as the last complete store left it
    snap,            \* history: lastStored at the instant of the handler's copy
    probe,           \* one refresh cycle run alone: what its tools printed
    esc,             \* one call of escapeJson: its argument and result
    cpu,             \* one call of getCpuInfo: its two samples and result
    doc,             \* one call of getHealthJson run alone: sources, document
    coll             \* one call of one collector run alone: source, result

cacheVars == <<s_speedResult, s_speedMutex, gmtimeBuf, rpc, res,
               hpc, speed, written, lastStored, snap>>

pureVars == <<probe, esc, cpu, doc, coll>>

vars == <<cacheVars, pureVars>>

\* ------------------------------------------------------------------------
\* SpeedTestResult and the text the probe tools print
\* ------------------------------------------------------------------------

\* a mutant of SpeedTestResult: available defaults to true
SpeedTestResultAvailable ==
    [download_mbps |-> 0, upload_mbps |-> 0, timestamp |-> << >>,
     available |-> TRUE]

\* struct SpeedTestResult's default member initializers
SpeedTestResult ==
    [download_mbps |-> 0, upload_mbps |-> 0, timestamp |-> << >>,
     available |-> FALSE]

\* the member order of SpeedTestResult: the order of a member-wise copy
Fields == <<"download_mbps", "upload_mbps", "timestamp", "available">>

\* the text after "Download:" / "Upload:": a number, or no number at all
Token(n) == [ok |-> TRUE, v |-> n]

NoNumber == [ok |-> FALSE, v |-> 0]

\* what a working tool prints: rates that are not negative
Tokens == {NoNumber} \cup {Token(n) : n \in 0..MaxRate}

\* any text at all, a negative number included
SignedTokens == {NoNumber} \cup {Token(n) : n \in -MaxRate..MaxRate}

Keys == {"Download:", "Upload:", "Ping:"}

Lines(T) == [key : Keys, val : T]

RECURSIVE SeqsUpTo(_, _)
SeqsUpTo(S, n) ==
    IF n = 0 THEN {<< >>}
    ELSE LET shorter == SeqsUpTo(S, n - 1)
         IN  shorter \cup {Append(s, x) : s \in shorter, x \in S}

\* what `speedtest-cli --simple` can print, its numbers drawn from T
PrimaryOutputs(T) == SeqsUpTo(Lines(T), MaxLines)

\* operator>>(float&): the number, or 0 when the text holds none
ExtractFloat(tok) == IF tok.ok THEN tok.v ELSE 0

\* the while (std::getline(ss, line)) loop over the tool's output
RECURSIVE ParseLines(_, _)
ParseLines(r, out) ==
    IF out = << >> THEN r
    ELSE LET line == Head(out)
             r2 == IF line.key = "Download:"
                     THEN [r EXCEPT !.download_mbps = ExtractFloat(line.val)]
                   ELSE IF line.key = "Upload:"
                     THEN [r EXCEPT !.upload_mbps = ExtractFloat(line.val)]
                   ELSE r
         IN  ParseLines(r2, Tail(out))

\* a mutant of ParsePrimary: available = (download >= 0 || upload > 0)
ParsePrimaryNotNegative(r, out) ==
    LET p == ParseLines(r, out)
    IN  [p EXCEPT !.available = (p.download_mbps >= 0 \/ p.upload_mbps > 0)]

\* the primary method: parse, then available = any rate above 0
ParsePrimary(r, out) ==
    LET p == ParseLines(r, out)
    IN  [p EXCEPT !.available = (p.download_mbps > 0 \/ p.upload_mbps > 0)]

\* what the curl command can print: nothing, text std::stof rejects
\* (invalid_argument), a number too large (out_of_range), or bytes per second
CurlOutputs ==
    {[kind |-> k, v |-> 0] : k \in {"empty", "text", "huge"}}
        \cup {[kind |-> "number", v |-> 125000 * n] : n \in 0..MaxRate}

StofThrows(out) == out.kind \in {"text", "huge"}

\* a mutant of TryStof: no handler around std::stof
TryStofNoCatch(r, out) ==
    IF StofThrows(out) THEN [res |-> r, escaped |-> TRUE]
    ELSE LET d == (out.v * 8) \div 1000000
         IN  [res |-> [r EXCEPT !.download_mbps = d, !.available = (d > 0)],
              escaped |-> FALSE]

\* try { stof; download_mbps = bytes * 8 / 1e6; available = ... } catch (...) {}
TryStof(r, out) ==
    IF StofThrows(out) THEN [res |-> r, escaped |-> FALSE]
    ELSE LET d == (out.v * 8) \div 1000000
         IN  [res |-> [r EXCEPT !.download_mbps = d, !.available = (d > 0)],
              escaped |-> FALSE]

\* the measurement of one cycle, from `SpeedTestResult res;` to the end of
\* the fallback: found = `which speedtest-cli` printed a path, out = what
\* speedtest-cli printed, curl = what curl printed
Measure(found, out, curl) ==
    LET r1 == IF found THEN ParsePrimary(SpeedTestResult, out)
              ELSE SpeedTestResult
    IN  IF r1.available \/ curl.kind = "empty"
        THEN [res |-> r1, escaped |-> FALSE]
        ELSE TryStof(r1, curl)

\* std::strftime(tsBuf, ..., tm)
Strftime(tm) == <<48 + tm>>

\* res.timestamp = tsBuf
Stamp(r, tm) == [r EXCEPT !.timestamp = Strftime(tm)]

\* the outcomes of a measurement whose tools print no negative number
Measurements ==
    {Measure(found, out, curl) :
        found \in BOOLEAN, out \in PrimaryOutputs(Tokens), curl \in CurlOutputs}

\* ------------------------------------------------------------------------
\* escapeJson; a std::string is the sequence of its characters' codes
\* ------------------------------------------------------------------------

Quote == 34
Backslash == 92
Newline == 10
LetterN == 110

\* one iteration of the loop over the characters
EscapeChar(c) ==
    IF c = Quote THEN <<Backslash, Quote>>
    ELSE IF c = Backslash THEN <<Backslash, Backslash>>
    ELSE IF c = Newline THEN <<Backslash, LetterN>>
    ELSE <<c>>

RECURSIVE escapeJson(_)
escapeJson(s) ==
    IF s = << >> THEN << >> ELSE EscapeChar(Head(s)) \o escapeJson(Tail(s))

\* the characters of the arguments tried: tab, newline, '"', '\', 'a', 'n'
Chars == {9, Newline, Quote, Backslash, 97, LetterN}

Strings == SeqsUpTo(Chars, MaxStr)

\* ------------------------------------------------------------------------
\* getCpuInfo; a float is the exact fraction num/den it stands for (den > 0)
\* ------------------------------------------------------------------------

Rat(n, d) == [num |-> n, den |-> d]

RatSub(a, b) == Rat(a.num * b.den - b.num * a.den, a.den * b.den)

\* CpuInfo info{}
CpuInfo == [usage_percent |-> Rat(0, 1), idle_percent |-> Rat(0, 1)]

\* for (auto x : v) total += x
RECURSIVE Total(_)
Total(v) == IF v = << >> THEN 0 ELSE Head(v) + Total(Tail(v))

\* a mutant of IdleOf: the counter before idle
IdleOfSystem(v) == v[3]

\* idle = v[3], the fourth counter
IdleOf(v) == v[4]

\* a mutant of getCpuInfo: if (d_total != 0)
getCpuInfoNonZero(v1, v2) ==
    IF Len(v1) < 4 \/ Len(v2) < 4 THEN CpuInfo
    ELSE LET d_total == Total(v2) - Total(v1)
             d_idle == IdleOf(v2) - IdleOf(v1)
             idle == Rat(100 * d_idle, d_total)
         IN  IF d_total # 0
             THEN [usage_percent |-> RatSub(Rat(100, 1), idle),
                   idle_percent |-> idle]
             ELSE CpuInfo

\* getCpuInfo after the two samples v1 and v2 are taken
getCpuInfo(v1, v2) ==
    IF Len(v1) < 4 \/ Len(v2) < 4 THEN CpuInfo
    ELSE LET d_total == Total(v2) - Total(v1)
             d_idle == IdleOf(v2) - IdleOf(v1)
             idle == Rat(100 * d_idle, d_total)
         IN  IF d_total > 0
             THEN [usage_percent |-> RatSub(Rat(100, 1), idle),
                   idle_percent |-> idle]
             ELSE CpuInfo

\* the numbers of counters tried: an unreadable file, a short line, the four
\* counters read, and a line with iowait too
SampleLengths == {0, 3, 4, 5}

\* what sample() can return
Samples == UNION {[1..n -> 0..MaxCounter] : n \in SampleLengths}

\* ------------------------------------------------------------------------
\* The other collectors. A file that cannot be opened reads as no lines.
\* ------------------------------------------------------------------------

\* s.rfind(p, 0) == 0
StartsWith(s, p) == Len(s) >= Len(p) /\ SubSeq(s, 1, Len(p)) = p

\* ss >> a >> b >> ... into k longs that were never assigned: cols = the
\* tokens left on the line, failed = the stream has failed already, stack =
\* what the unassigned longs hold. At the end of the line, or once the
\* stream has failed, an extraction leaves its long as it was; a token that
\* is no number stores 0 and fails the stream.
RECURSIVE ExtractLongs(_, _, _, _)
ExtractLongs(cols, k, failed, stack) ==
    IF k = 0 THEN << >>
    ELSE IF failed \/ cols = << >>
      THEN <<stack>> \o ExtractLongs(<< >>, k - 1, TRUE, stack)
    ELSE IF ~Head(cols).ok
      THEN <<0>> \o ExtractLongs(Tail(cols), k - 1, TRUE, stack)
    ELSE <<Head(cols).v>> \o ExtractLongs(Tail(cols), k - 1, FALSE, stack)

\* MemoryInfo info{}
MemoryInfo ==
    [total_kb |-> 0, used_kb |-> 0, free_kb |-> 0, available_kb |-> 0,
     usage_percent |-> Rat(0, 1)]

\* the loop over the lines of /proc/meminfo, a line being its key ("" on a
\* blank line) and the tokens after it; long val is declared unassigned
RECURSIVE MemLines(_, _, _)
MemLines(info, lines, stack) ==
    IF lines = << >> THEN info
    ELSE LET l == Head(lines)
             val == ExtractLongs(l.cols, 1, l.key = "", stack)[1]
             i2 == IF l.key = "MemTotal:"
                     THEN [info EXCEPT !.total_kb = val]
                   ELSE IF l.key = "MemFree:"
                     THEN [info EXCEPT !.free_kb = val]
                   ELSE IF l.key = "MemAvailable:"
                     THEN [info EXCEPT !.available_kb = val]
                   ELSE info
         IN  MemLines(i2, Tail(lines), stack)

\* a mutant of getMemoryInfo: used_kb = total_kb - available_kb
getMemoryInfoUsedFromAvailable(lines, stack) ==
    LET i == MemLines(MemoryInfo, lines, stack)
        u == [i EXCEPT !.used_kb = i.total_kb - i.available_kb]
    IN  IF u.total_kb > 0
        THEN [u EXCEPT !.usage_percent =
                  Rat(100 * (u.total_kb - u.available_kb), u.total_kb)]
        ELSE u

getMemoryInfo(lines, stack) ==
    LET i == MemLines(MemoryInfo, lines, stack)
        u == [i EXCEPT !.used_kb = i.total_kb - i.free_kb]
    IN  IF u.total_kb > 0
        THEN [u EXCEPT !.usage_percent =
                  Rat(100 * (u.total_kb - u.available_kb), u.total_kb)]
        ELSE u

\* the filesystem types getDiskInfo skips
PseudoFs ==
    {"proc", "sysfs", "tmpfs", "devtmpfs", "cgroup", "cgroup2", "devpts",
     "overlay", "none"}

\* "/dev/"
DevPrefix == <<47, 100, 101, 118, 47>>

\* the environment of the process: a variable is unset, or set to a text
Unset == [set |-> FALSE, val |-> << >>]
SetTo(s) == [set |-> TRUE, val |-> s]

\* "/proc", "/sys"
ProcDefault == <<47, 112, 114, 111, 99>>
SysDefault == <<47, 115, 121, 115>>

\* the constructor: the two paths are all it takes from the environment
HealthCollector(env) ==
    [proc_path_ |-> IF env.PROC_PATH.set THEN env.PROC_PATH.val
                    ELSE ProcDefault,
     sys_path_ |-> IF env.SYS_PATH.set THEN env.SYS_PATH.val
                   ELSE SysDefault]

\* statvfs(mount.c_str(), &st): the path queried for a mount point
StatvfsPath(this, mount) == mount

\* a mutant of DiskEntry: without the test of the device path
DiskEntryAnyDevice(m) ==
    IF m.fstype \in PseudoFs \/ m.st.rc # 0
    THEN << >>
    ELSE LET total == (m.st.f_blocks * m.st.f_frsize) \div 1024
             free == (m.st.f_bfree * m.st.f_frsize) \div 1024
             used == total - free
         IN  <<[path |-> m.mount, total_kb |-> total, used_kb |-> used,
                free_kb |-> free,
                usage_percent |-> IF total > 0 THEN Rat(100 * used, total)
                                  ELSE Rat(0, 1)]>>

\* one line of /proc/mounts with what statvfs returns for the path queried:
\* no entry, or one
DiskEntry(m) ==
    IF m.fstype \in PseudoFs \/ ~StartsWith(m.dev, DevPrefix) \/ m.st.rc # 0
    THEN << >>
    ELSE LET total == (m.st.f_blocks * m.st.f_frsize) \div 1024
             free == (m.st.f_bfree * m.st.f_frsize) \div 1024
             used == total - free
         IN  <<[path |-> m.mount, total_kb |-> total, used_kb |-> used,
                free_kb |-> free,
                usage_percent |-> IF total > 0 THEN Rat(100 * used, total)
                                  ELSE Rat(0, 1)]>>

RECURSIVE getDiskInfo(_)
getDiskInfo(mounts) ==
    IF mounts = << >> THEN << >>
    ELSE DiskEntry(Head(mounts)) \o getDiskInfo(Tail(mounts))

\* the paths getDiskInfo passes to statvfs, in order
RECURSIVE StatvfsCalls(_, _)
StatvfsCalls(this, mounts) ==
    IF mounts = << >> THEN << >>
    ELSE LET m == Head(mounts)
         IN  (IF m.fstype \in PseudoFs \/ ~StartsWith(m.dev, DevPrefix)
              THEN << >> ELSE <<StatvfsPath(this, m.mount)>>)
             \o StatvfsCalls(this, Tail(mounts))

\* "lo"
LoName == <<108, 111>>

\* name.pop_back() when the name ends with ':'
StripColon(name) ==
    IF name # << >> /\ name[Len(name)] = 58
    THEN SubSeq(name, 1, Len(name) - 1) ELSE name

\* one line of /proc/net/dev after the headers: name = its first word
\* (empty on a blank line), cols = the words after it. NetworkInterface ni
\* is declared with its counters unassigned; rx_bytes rx_packets, six
\* skipped, tx_bytes tx_packets
NetEntry(l, stack) ==
    IF StripColon(l.name) = LoName THEN << >>
    ELSE LET c == ExtractLongs(l.cols, 10, l.name = << >>, stack)
         IN  <<[name |-> StripColon(l.name),
                rx_bytes |-> c[1], rx_packets |-> c[2],
                tx_bytes |-> c[9], tx_packets |-> c[10]]>>

RECURSIVE NetEntries(_, _)
NetEntries(lines, stack) ==
    IF lines = << >> THEN << >>
    ELSE NetEntry(Head(lines), stack) \o NetEntries(Tail(lines), stack)

\* if (++lineno <= 2) continue;
getNetworkInterfaces(lines, stack) ==
    NetEntries(SubSeq(lines, 3, Len(lines)), stack)

\* "loop", "ram"
LoopPrefix == <<108, 111, 111, 112>>
RamPrefix == <<114, 97, 109>>

\* std::isdigit on some character of the name
HasDigit(name) == \E i \in DOMAIN name : name[i] \in 48..57

\* one line of /proc/diskstats: ids_ok = major and minor are numbers, name =
\* the word after them, cols = the words after the name. DiskIO di is
\* declared with its counters unassigned
IoEntry(l, stack) ==
    LET name == IF l.ids_ok THEN l.name ELSE << >>
    IN  IF StartsWith(name, LoopPrefix) \/ StartsWith(name, RamPrefix)
           \/ HasDigit(name)
        THEN << >>
        ELSE LET c == ExtractLongs(l.cols, 7, name = << >>, stack)
             IN  <<[name |-> name,
                    reads_completed |-> c[1], read_sectors |-> c[3],
                    writes_completed |-> c[5], write_sectors |-> c[7]]>>

RECURSIVE getDiskIOStats(_, _)
getDiskIOStats(lines, stack) ==
    IF lines = << >> THEN << >>
    ELSE IoEntry(Head(lines), stack) \o getDiskIOStats(Tail(lines), stack)

\* one entry of /sys/class/thermal: zone = its path contains "thermal_zone",
\* temp and type = whether the file opens and what it holds
ZoneEntry(e) ==
    IF ~e.zone \/ ~e.temp.open THEN << >>
    ELSE <<[name |-> IF e.type.open THEN e.type.text ELSE e.filename,
            temperature_celsius |-> Rat(e.temp.raw, 1000)]>>

RECURSIVE ZoneEntries(_)
ZoneEntries(entries) ==
    IF entries = << >> THEN << >>
    ELSE ZoneEntry(Head(entries)) \o ZoneEntries(Tail(entries))

\* a mutant of getThermalZones: fs::directory_iterator(base), which throws
getThermalZonesThrowing(dir) ==
    IF dir.ok THEN [threw |-> FALSE, zones |-> ZoneEntries(dir.entries)]
    ELSE [threw |-> TRUE, zones |-> << >>]

\* fs::directory_iterator(base, ec): the end iterator when the directory
\* cannot be enumerated
getThermalZones(dir) ==
    IF dir.ok THEN [threw |-> FALSE, zones |-> ZoneEntries(dir.entries)]
    ELSE [threw |-> FALSE, zones |-> << >>]

\* the first position >= from of character c in s, or 0 (npos)
RECURSIVE Find(_, _, _)
Find(s, c, from) ==
    IF from > Len(s) THEN 0
    ELSE IF s[from] = c THEN from
    ELSE Find(s, c, from + 1)

\* "healthy", "unhealthy", "health:"
HealthyText == <<104, 101, 97, 108, 116, 104, 121>>
UnhealthyText == <<117, 110>> \o HealthyText
HealthPrefix == <<104, 101, 97, 108, 116, 104, 58>>

extractHealth(status) ==
    LET lp == Find(status, 40, 1)
    IN  IF lp = 0 THEN "none"
        ELSE LET rp == Find(status, 41, lp)
                 inner == IF rp = 0 THEN SubSeq(status, lp + 1, Len(status))
                          ELSE SubSeq(status, lp + 1, rp - 1)
             IN  IF inner = HealthyText THEN "healthy"
                 ELSE IF inner = UnhealthyText THEN "unhealthy"
                 ELSE IF StartsWith(inner, HealthPrefix) THEN "starting"
                 ELSE "none"

\* one line `docker ps` printed, split at the tabs: f = its fields
Field(f, i) == IF i <= Len(f) THEN f[i] ELSE << >>

DockerEntry(f) ==
    IF Field(f, 1) = << >> THEN << >>
    ELSE <<[id |-> Field(f, 1), image |-> Field(f, 2), names |-> Field(f, 3),
            status |-> Field(f, 4), state |-> Field(f, 5),
            health |-> extractHealth(Field(f, 4))]>>

RECURSIVE DockerEntries(_)
DockerEntries(lines) ==
    IF lines = << >> THEN << >>
    ELSE DockerEntry(Head(lines)) \o DockerEntries(Tail(lines))

\* if (!fp) return result;
getDockerContainers(ps) ==
    IF ~ps.popen THEN << >> ELSE DockerEntries(ps.lines)

\* ------------------------------------------------------------------------
\* getHealthJson: the document as the sequence of its top-level members
\* ------------------------------------------------------------------------

\* for (size_t i = 0; i < disks.size(); ++i)
DiskJson(ds) ==
    [i \in DOMAIN ds |-> [ds[i] EXCEPT !.path = escapeJson(ds[i].path)]]

\* the same loop over nets, ios and temps
NameJson(ns) ==
    [i \in DOMAIN ns |-> [ns[i] EXCEPT !.name = escapeJson(ns[i].name)]]

\* the health words hold nothing escapeJson changes
DockerJson(cs) ==
    [i \in DOMAIN cs |->
        [id |-> escapeJson(cs[i].id), image |-> escapeJson(cs[i].image),
         names |-> escapeJson(cs[i].names),
         status |-> escapeJson(cs[i].status),
         state |-> escapeJson(cs[i].state), health |-> cs[i].health]]

InternetSpeedJson(s) ==
    [available |-> IF s.available THEN "true" ELSE "false",
     download_mbps |-> s.download_mbps,
     upload_mbps |-> s.upload_mbps,
     last_checked |-> escapeJson(s.timestamp)]

Member(k, v) == [key |-> k, value |-> v]

\* getHealthJson run from its first line to its last: s = what the sources
\* hold, cache = s_speedResult at the copy, tm = what std::time returns
getHealthJson(s, cache, tm) ==
    LET temps == getThermalZones(s.thermal)
    IN  IF temps.threw THEN [aborted |-> TRUE, members |-> << >>]
        ELSE [aborted |-> FALSE,
              members |->
                <<Member("timestamp", Strftime(tm)),
                  Member("cpu", getCpuInfo(s.stat[1], s.stat[2])),
                  Member("memory", getMemoryInfo(s.meminfo, s.stack)),
                  Member("disks", DiskJson(getDiskInfo(s.mounts))),
                  Member("network",
                         NameJson(getNetworkInterfaces(s.netdev,
                                                       s.stack))),
                  Member("disk_io",
                         NameJson(getDiskIOStats(s.diskstats, s.stack))),
                  Member("temperature", NameJson(temps.zones)),
                  Member("docker",
                         DockerJson(getDockerContainers(s.docker))),
                  Member("internet_speed", InternetSpeedJson(cache))>>]

\* ------------------------------------------------------------------------
\* Initial state
\* ------------------------------------------------------------------------

CacheInit ==
    /\ s_speedResult = SpeedTestResult
    /\ s_speedMutex = Free
    /\ gmtimeBuf = [tm |-> 0, by |-> "nobody"]
    /\ rpc = "measure"
    /\ res = SpeedTestResult
    /\ hpc = [h \in Handlers |-> "idle"]
    /\ speed = [h \in Handlers |-> SpeedTestResult]
    /\ written = FALSE
    /\ lastStored = SpeedTestResult
    /\ snap = [h \in Handlers |-> SpeedTestResult]

NoCurl == [kind |-> "empty", v |-> 0]

ProbeIdle ==
    probe = [pc |-> "idle", found |-> FALSE, out |-> << >>, curl |-> NoCurl,
             tm |-> 1]

EscIdle == esc = [pc |-> "idle", s |-> << >>, out |-> << >>]

CpuIdle == cpu = [pc |-> "idle", v1 |-> << >>, v2 |-> << >>, info |-> CpuInfo]

\* every source unavailable: no file opens, popen fails
NoSources ==
    [stat |-> << << >>, << >> >>, meminfo |-> << >>, mounts |-> << >>,
     netdev |-> << >>, diskstats |-> << >>,
     thermal |-> [ok |-> FALSE, entries |-> << >>],
     docker |-> [popen |-> FALSE, lines |-> << >>], stack |-> 0]

DocIdle ==
    doc = [pc |-> "idle", src |-> NoSources, tm |-> 1, members |-> << >>,
           before |-> << >>]

CollIdle ==
    coll = [pc |-> "idle", fn |-> "none", src |-> << >>, stack |-> 0,
            out |-> << >>]

\* no call is run alone
PureIdle == ProbeIdle /\ EscIdle /\ CpuIdle /\ DocIdle /\ CollIdle

\* ------------------------------------------------------------------------
\* updateSpeedTestCache, one step per shared access or external command
\* ------------------------------------------------------------------------

\* SpeedTestResult res; then the external commands (which, speedtest-cli,
\* curl) and the parse of what they print
R_Measure ==
    /\ rpc = "measure"
    /\ \E m \in Measurements :
          /\ res' = m.res
          /\ rpc' = IF m.escaped THEN "terminated" ELSE "gmtime"
    /\ UNCHANGED <<pureVars, s_speedResult, s_speedMutex, gmtimeBuf,
                   hpc, speed, written, lastStored, snap>>

\* now = std::time(nullptr); std::gmtime(&now) fills the static struct tm
R_Gmtime ==
    /\ rpc = "gmtime"
    /\ \E t \in 1..MaxTime : gmtimeBuf' = [tm |-> t, by |-> speedThread]
    /\ rpc' = "strftime"
    /\ UNCHANGED <<pureVars, s_speedResult, s_speedMutex, res,
                   hpc, speed, written, lastStored, snap>>

\* std::strftime reads the static struct tm; res.timestamp = tsBuf
R_Strftime ==
    /\ rpc = "strftime"
    /\ res' = Stamp(res, gmtimeBuf.tm)
    /\ rpc' = "lock"
    /\ UNCHANGED <<pureVars, s_speedResult, s_speedMutex, gmtimeBuf,
                   hpc, speed, written, lastStored, snap>>

\* std::lock_guard<std::mutex> lock(s_speedMutex)
R_Lock ==
    /\ rpc = "lock"
    /\ s_speedMutex = Free
    /\ s_speedMutex' = speedThread
    /\ rpc' = "assign1"
    /\ UNCHANGED <<pureVars, s_speedResult, gmtimeBuf, res,
                   hpc, speed, written, lastStored, snap>>

AssignPcs == <<"assign1", "assign2", "assign3", "assign4">>

\* s_speedResult = res, member by member
R_Assign ==
    \E i \in 1..4 :
        /\ rpc = AssignPcs[i]
        /\ s_speedResult' = [s_speedResult EXCEPT ![Fields[i]] = res[Fields[i]]]
        /\ rpc' = IF i < 4 THEN AssignPcs[i + 1] ELSE "unlock"
        /\ written' = (written \/ i = 4)
        /\ lastStored' = IF i = 4 THEN s_speedResult' ELSE lastStored
        /\ UNCHANGED <<pureVars, s_speedMutex, gmtimeBuf, res,
                       hpc, speed, snap>>

\* a mutant of R_Unlock: the lock outlives the call and is held in the sleep
R_UnlockMissing ==
    /\ rpc = "unlock"
    /\ rpc' = "sleep"
    /\ res' = SpeedTestResult
    /\ UNCHANGED <<pureVars, s_speedResult, s_speedMutex, gmtimeBuf,
                   hpc, speed, written, lastStored, snap>>

\* the lock_guard's destructor at the end of updateSpeedTestCache
R_Unlock ==
    /\ rpc = "unlock"
    /\ s_speedMutex' = IF s_speedMutex = speedThread THEN Free ELSE s_speedMutex
    /\ rpc' = "sleep"
    /\ res' = SpeedTestResult
    /\ UNCHANGED <<pureVars, s_speedResult, gmtimeBuf,
                   hpc, speed, written, lastStored, snap>>

\* std::this_thread::sleep_for(std::chrono::hours(1)) returns
R_Wake ==
    /\ rpc = "sleep"
    /\ rpc' = "measure"
    /\ UNCHANGED <<pureVars, s_speedResult, s_speedMutex, gmtimeBuf, res,
                   hpc, speed, written, lastStored, snap>>

\* ------------------------------------------------------------------------
\* The /api/health handler: HealthCollector collector; getHealthJson()
\* ------------------------------------------------------------------------

\* a request arrives at a worker thread: HealthCollector collector;
H_Request(h) ==
    /\ hpc[h] = "idle"
    /\ hpc' = [hpc EXCEPT ![h] = "collect"]
    /\ UNCHANGED <<pureVars, s_speedResult, s_speedMutex, gmtimeBuf, rpc, res,
                   speed, written, lastStored, snap>>

\* getCpuInfo() ... getDockerContainers(): files, a 200 ms sleep, docker ps
H_Collect(h) ==
    /\ hpc[h] = "collect"
    /\ hpc' = [hpc EXCEPT ![h] = "lock"]
    /\ UNCHANGED <<pureVars, s_speedResult, s_speedMutex, gmtimeBuf, rpc, res,
                   speed, written, lastStored, snap>>

\* a mutant of H_Lock: the copy is made without the lock
H_LockMissing(h) ==
    /\ hpc[h] = "lock"
    /\ hpc' = [hpc EXCEPT ![h] = "copy"]
    /\ UNCHANGED <<pureVars, s_speedResult, s_speedMutex, gmtimeBuf, rpc, res,
                   speed, written, lastStored, snap>>

\* SpeedTestResult speed; { std::lock_guard<std::mutex> lock(s_speedMutex);
H_Lock(h) ==
    /\ hpc[h] = "lock"
    /\ s_speedMutex = Free
    /\ s_speedMutex' = h
    /\ hpc' = [hpc EXCEPT ![h] = "copy"]
    /\ UNCHANGED <<pureVars, s_speedResult, gmtimeBuf, rpc, res,
                   speed, written, lastStored, snap>>

\* a mutant of H_Copy: the assignment is written the wrong way round
H_CopyReversed(h) ==
    /\ hpc[h] = "copy"
    /\ s_speedResult' = speed[h]
    /\ hpc' = [hpc EXCEPT ![h] = "unlock"]
    /\ snap' = [snap EXCEPT ![h] = lastStored]
    /\ UNCHANGED <<pureVars, s_speedMutex, gmtimeBuf, rpc, res, speed,
                   written, lastStored>>

\* speed = s_speedResult
H_Copy(h) ==
    /\ hpc[h] = "copy"
    /\ speed' = [speed EXCEPT ![h] = s_speedResult]
    /\ hpc' = [hpc EXCEPT ![h] = "unlock"]
    /\ snap' = [snap EXCEPT ![h] = lastStored]
    /\ UNCHANGED <<pureVars, s_speedResult, s_speedMutex, gmtimeBuf, rpc, res,
                   written, lastStored>>

\* } the lock_guard's scope ends
H_Unlock(h) ==
    /\ hpc[h] = "unlock"
    /\ s_speedMutex' = IF s_speedMutex = h THEN Free ELSE s_speedMutex
    /\ hpc' = [hpc EXCEPT ![h] = "gmtime"]
    /\ UNCHANGED <<pureVars, s_speedResult, gmtimeBuf, rpc, res,
                   speed, written, lastStored, snap>>

\* now = std::time(nullptr); std::gmtime(&now) fills the static struct tm
H_Gmtime(h) ==
    /\ hpc[h] = "gmtime"
    /\ \E t \in 1..MaxTime : gmtimeBuf' = [tm |-> t, by |-> h]
    /\ hpc' = [hpc EXCEPT ![h] = "strftime"]
    /\ UNCHANGED <<pureVars, s_speedResult, s_speedMutex, rpc, res,
                   speed, written, lastStored, snap>>

\* std::strftime reads the static struct tm into tsBuf; the document is
\* written from the locals and returned, and the locals are destroyed
H_Strftime(h) ==
    /\ hpc[h] = "strftime"
    /\ hpc' = [hpc EXCEPT ![h] = "idle"]
    /\ speed' = [speed EXCEPT ![h] = SpeedTestResult]
    /\ snap' = [snap EXCEPT ![h] = SpeedTestResult]
    /\ UNCHANGED <<pureVars, s_speedResult, s_speedMutex, gmtimeBuf, rpc, res,
                   written, lastStored>>

Refresher ==
    \/ R_Measure
    \/ R_Gmtime
    \/ R_Strftime
    \/ R_Lock
    \/ R_Assign
    \/ R_Unlock
    \/ R_Wake

Handler(h) ==
    \/ H_Request(h)
    \/ H_Collect(h)
    \/ H_Lock(h)
    \/ H_Copy(h)
    \/ H_Unlock(h)
    \/ H_Gmtime(h)
    \/ H_Strftime(h)

\* the threads of the server
Next == Refresher \/ \E h \in Handlers : Handler(h)

\* the server after main() has started speedThread; no call is run alone
Init == CacheInit /\ PureIdle

Spec == Init /\ [][Next]_vars

\* Scheduling: a thread that can run runs, a thread blocked in
\* std::mutex::lock() gets the mutex when it is released again and again
\* (the critical sections are a copy or an assignment, the refresher takes
\* the mutex once an hour), and sleep_for returns. Nothing bounds the
\* external commands (R_Measure, H_Collect) or makes a request arrive.
Fairness ==
    /\ WF_vars(R_Gmtime)
    /\ WF_vars(R_Strftime)
    /\ SF_vars(R_Lock)
    /\ WF_vars(R_Assign)
    /\ WF_vars(R_Unlock)
    /\ WF_vars(R_Wake)
    /\ \A h \in Handlers :
          /\ SF_vars(H_Lock(h))
          /\ WF_vars(H_Copy(h))
          /\ WF_vars(H_Unlock(h))
          /\ WF_vars(H_Gmtime(h))
          /\ WF_vars(H_Strftime(h))

LiveSpec == Init /\ [][Next]_vars /\ Fairness

\* ------------------------------------------------------------------------
\* One refresh cycle run alone, on any text the tools can print
\* ------------------------------------------------------------------------

\* a cache left by an earlier successful cycle
MeasuredCache ==
    Stamp(Measure(TRUE, <<[key |-> "Download:", val |-> Token(MaxRate)]>>,
                  NoCurl).res, 1)

ProbeInit ==
    /\ s_speedMutex = Free
    /\ gmtimeBuf = [tm |-> 0, by |-> "nobody"]
    /\ rpc = "measure"
    /\ res = SpeedTestResult
    /\ hpc = [h \in Handlers |-> "idle"]
    /\ speed = [h \in Handlers |-> SpeedTestResult]
    /\ snap = [h \in Handlers |-> SpeedTestResult]
    /\ s_speedResult \in {SpeedTestResult, MeasuredCache}
    /\ lastStored = s_speedResult
    /\ written = (s_speedResult # SpeedTestResult)
    /\ probe \in [pc : {"start"}, found : BOOLEAN,
                  out : PrimaryOutputs(SignedTokens), curl : CurlOutputs,
                  tm : 1..MaxTime]
    /\ EscIdle
    /\ CpuIdle
    /\ DocIdle
    /\ CollIdle

\* updateSpeedTestCache from its first line to its last, no handler running
updateSpeedTestCache ==
    /\ probe.pc = "start"
    /\ LET m == Measure(probe.found, probe.out, probe.curl)
       IN  /\ ~m.escaped
           /\ s_speedResult' = Stamp(m.res, probe.tm)
    /\ lastStored' = s_speedResult'
    /\ written' = TRUE
    /\ gmtimeBuf' = [tm |-> probe.tm, by |-> speedThread]
    /\ rpc' = "sleep"
    /\ probe' = [probe EXCEPT !.pc = "done"]
    /\ UNCHANGED <<s_speedMutex, res, hpc, speed, snap, esc, cpu, doc,
                   coll>>

ProbeSpec == ProbeInit /\ [][updateSpeedTestCache]_vars

\* ------------------------------------------------------------------------
\* One call of escapeJson, one call of getCpuInfo
\* ------------------------------------------------------------------------

EscInit ==
    /\ CacheInit
    /\ ProbeIdle
    /\ CpuIdle
    /\ DocIdle
    /\ CollIdle
    /\ esc \in [pc : {"start"}, s : Strings, out : {<< >>}]

E_escapeJson ==
    /\ esc.pc = "start"
    /\ esc' = [esc EXCEPT !.pc = "done", !.out = escapeJson(esc.s)]
    /\ UNCHANGED <<cacheVars, probe, cpu, doc, coll>>

EscSpec == EscInit /\ [][E_escapeJson]_vars

CpuInit ==
    /\ CacheInit
    /\ ProbeIdle
    /\ EscIdle
    /\ DocIdle
    /\ CollIdle
    /\ cpu \in [pc : {"start"}, v1 : Samples, v2 : Samples, info : {CpuInfo}]

\* the two samples are taken; the rest of getCpuInfo
C_getCpuInfo ==
    /\ cpu.pc = "start"
    /\ cpu' = [cpu EXCEPT !.pc = "done", !.info = getCpuInfo(cpu.v1, cpu.v2)]
    /\ UNCHANGED <<cacheVars, probe, esc, doc, coll>>

CpuSpec == CpuInit /\ [][C_getCpuInfo]_vars

\* ------------------------------------------------------------------------
\* One call of getHealthJson, no other thread running
\* ------------------------------------------------------------------------

\* /proc/stat: unreadable, or two samples 200 ms apart
StatSources ==
    {<< << >>, << >> >>, << <<0, 0, 0, 0>>, <<1, 0, 0, 1>> >>}

MeminfoSources ==
    {<< >>,
     <<[key |-> "MemTotal:", cols |-> <<Token(4)>>],
       [key |-> "MemFree:", cols |-> <<Token(1)>>],
       [key |-> "MemAvailable:", cols |-> <<Token(2)>>],
       [key |-> "Cached:", cols |-> <<Token(1)>>]>>}

\* statvfs fails; statvfs succeeds on 4 blocks of 1024 bytes, 1 of them free
StatvfsFails == [rc |-> -1, f_blocks |-> 0, f_bfree |-> 0, f_frsize |-> 0]
StatvfsOk == [rc |-> 0, f_blocks |-> 4, f_bfree |-> 1, f_frsize |-> 1024]

\* "/dev/a" on "/" (ext4), "/dev/b" on "/\"" (ext4), "proc" on "/p" (proc)
MountsSources ==
    {<< >>,
     <<[dev |-> DevPrefix \o <<97>>, mount |-> <<47>>, fstype |-> "ext4",
        st |-> StatvfsOk],
       [dev |-> <<112>>, mount |-> <<47, 112>>, fstype |-> "proc",
        st |-> StatvfsOk]>>,
     <<[dev |-> DevPrefix \o <<98>>, mount |-> <<47, 34>>, fstype |-> "ext4",
        st |-> StatvfsFails]>>}

\* ten counters, all of them numbers
Counters == [i \in 1..10 |-> Token(IF i \in {1, 2, 9, 10} THEN 1 ELSE 0)]

\* two header lines, then "lo:" and "e:"
NetdevSources ==
    {<< >>,
     <<[name |-> << >>, cols |-> << >>], [name |-> << >>, cols |-> << >>],
       [name |-> LoName \o <<58>>, cols |-> Counters],
       [name |-> <<101, 58>>, cols |-> Counters]>>}

\* "sda", "sda1", "loop0"
DiskstatsSources ==
    {<< >>,
     <<[ids_ok |-> TRUE, name |-> <<115, 100, 97>>, cols |-> Counters],
       [ids_ok |-> TRUE, name |-> <<115, 100, 97, 49>>, cols |-> Counters],
       [ids_ok |-> TRUE, name |-> LoopPrefix \o <<48>>,
        cols |-> Counters]>>}

\* the directory is missing; it holds a zone whose type file reads "cpu"
\* and a zone whose temp file does not open
ThermalSources ==
    {[ok |-> FALSE, entries |-> << >>],
     [ok |-> TRUE, entries |-> << >>],
     [ok |-> TRUE,
      entries |->
        <<[zone |-> TRUE, filename |-> <<122, 48>>,
           temp |-> [open |-> TRUE, raw |-> 42000],
           type |-> [open |-> TRUE, text |-> <<99, 112, 117>>]],
          [zone |-> TRUE, filename |-> <<122, 49>>,
           temp |-> [open |-> FALSE, raw |-> 0],
           type |-> [open |-> FALSE, text |-> << >>]]>>]}

\* popen fails; docker prints nothing; docker prints one container whose
\* status is "(healthy)"
DockerSources ==
    {[popen |-> FALSE, lines |-> << >>],
     [popen |-> TRUE, lines |-> << >>],
     [popen |-> TRUE,
      lines |-> <<<<<<97>>, <<105>>, <<110>>,
                    <<40>> \o HealthyText \o <<41>>, <<114>>>>>>]}

DocSources ==
    [stat : StatSources, meminfo : MeminfoSources, mounts : MountsSources,
     netdev : NetdevSources, diskstats : DiskstatsSources,
     thermal : ThermalSources, docker : DockerSources, stack : {0}]

DocInit ==
    /\ s_speedMutex = Free
    /\ gmtimeBuf = [tm |-> 0, by |-> "nobody"]
    /\ rpc = "sleep"
    /\ res = SpeedTestResult
    /\ hpc = [h \in Handlers |-> "idle"]
    /\ speed = [h \in Handlers |-> SpeedTestResult]
    /\ snap = [h \in Handlers |-> SpeedTestResult]
    /\ s_speedResult \in {SpeedTestResult, MeasuredCache}
    /\ lastStored = s_speedResult
    /\ written = (s_speedResult # SpeedTestResult)
    /\ ProbeIdle
    /\ EscIdle
    /\ CpuIdle
    /\ CollIdle
    /\ doc \in [pc : {"start"}, src : DocSources, tm : 1..MaxTime,
                members : {<< >>}, before : {<< >>}]

\* getHealthJson from its first line to its last; an exception leaves it
\* without a document
G_getHealthJson ==
    /\ doc.pc = "start"
    /\ LET j == getHealthJson(doc.src, s_speedResult, doc.tm)
       IN  doc' = IF j.aborted THEN [doc EXCEPT !.pc = "aborted"]
                  ELSE [doc EXCEPT !.pc = "done", !.members = j.members]
    /\ gmtimeBuf' = IF doc'.pc = "done" THEN [tm |-> doc.tm, by |-> "h1"]
                    ELSE gmtimeBuf
    /\ UNCHANGED <<s_speedResult, s_speedMutex, rpc, res, hpc, speed,
                   written, lastStored, snap, probe, esc, cpu, coll>>

DocSpec == DocInit /\ [][G_getHealthJson]_vars

\* ------------------------------------------------------------------------
\* One call of one collector, no other thread running
\* ------------------------------------------------------------------------

\* the server idle but for the call coll describes
CollInit ==
    /\ CacheInit
    /\ ProbeIdle
    /\ EscIdle
    /\ CpuIdle
    /\ DocIdle

\* what a long that was never assigned can hold
Indeterminate == {-1, MaxKb + 1}

\* a line of /proc/meminfo: a key, then nothing, a text or a number; or blank
MemKeys == {"MemTotal:", "MemFree:", "MemAvailable:", "Cached:"}

MeminfoLines ==
    {[key |-> k, cols |-> c] :
        k \in MemKeys,
        c \in {<< >>, <<NoNumber>>} \cup {<<Token(n)>> : n \in 0..MaxKb}}
    \cup {[key |-> "", cols |-> << >>]}

MemInit ==
    /\ CollInit
    /\ coll \in [pc : {"start"}, fn : {"getMemoryInfo"},
                 src : SeqsUpTo(MeminfoLines, MaxMemLines),
                 stack : Indeterminate, out : {MemoryInfo}]

M_getMemoryInfo ==
    /\ coll.pc = "start"
    /\ coll.fn = "getMemoryInfo"
    /\ coll' = [coll EXCEPT !.pc = "done",
                            !.out = getMemoryInfo(coll.src, coll.stack)]
    /\ UNCHANGED <<cacheVars, probe, esc, cpu, doc>>

MemSpec == MemInit /\ [][M_getMemoryInfo]_vars

\* statvfs succeeds on a filesystem of less than 1 kB
StatvfsSmall == [rc |-> 0, f_blocks |-> 1, f_bfree |-> 0, f_frsize |-> 512]

\* a line of /proc/mounts: the device "/dev/a", "/dev" or "a/dev/", mounted
\* on "/", with the type ext4 or one of those skipped; statvfs fails or
\* succeeds on the lines that get as far as statvfs (on the others it would
\* succeed)
MountLines ==
    {l \in [dev : {DevPrefix \o <<97>>, <<47, 100, 101, 118>>,
                   <<97>> \o DevPrefix},
            mount : {<<47>>},
            fstype : PseudoFs \cup {"ext4"},
            st : {StatvfsFails, StatvfsOk, StatvfsSmall}] :
        (l.fstype \in PseudoFs \/ ~StartsWith(l.dev, DevPrefix))
            => l.st = StatvfsOk}

\* HOST_ROOT_PATH unset, empty, or "/h"
Environments ==
    [PROC_PATH : {Unset}, SYS_PATH : {Unset},
     HOST_ROOT_PATH : {Unset, SetTo(<< >>), SetTo(<<47, 104>>)}]

DiskInit ==
    /\ CollInit
    /\ coll \in [pc : {"start"}, fn : {"getDiskInfo"},
                 src : [env : Environments,
                        mounts : SeqsUpTo(MountLines, MaxMounts)],
                 stack : {0},
                 out : {[result |-> << >>, statvfs |-> << >>]}]

\* HealthCollector collector; collector.getDiskInfo()
D_getDiskInfo ==
    /\ coll.pc = "start"
    /\ coll.fn = "getDiskInfo"
    /\ LET this == HealthCollector(coll.src.env)
       IN  coll' = [coll EXCEPT
                      !.pc = "done",
                      !.out = [result |-> getDiskInfo(coll.src.mounts),
                               statvfs |->
                                   StatvfsCalls(this, coll.src.mounts)]]
    /\ UNCHANGED <<cacheVars, probe, esc, cpu, doc>>

DiskSpec == DiskInit /\ [][D_getDiskInfo]_vars

\* the words after the name on a line of counters: none; a text; two
\* counters; a counter and a text; all ten counters
RowCols ==
    {<< >>, <<NoNumber>>, <<Token(1), Token(1)>>, <<Token(1), NoNumber>>,
     Counters}

\* the first word of a line of /proc/net/dev: none (a blank line), "lo:",
\* "lo", "lo:1" (the first counter right after the colon), "e:"
NetNames ==
    {<< >>, LoName \o <<58>>, LoName, LoName \o <<58, 49>>, <<101, 58>>}

NetRows ==
    {l \in [name : NetNames, cols : RowCols] :
        l.name = << >> => l.cols = << >>}

\* a header line: "Inter-|" and the rest
NetHeader == [name |-> <<73>>, cols |-> << >>]

\* an unreadable file, or the two header lines and the lines of counters
NetTables ==
    {<< >>}
    \cup {<<NetHeader, NetHeader>> \o r : r \in SeqsUpTo(NetRows, MaxRows)}

\* the name on a line of /proc/diskstats: none, "sda", "sda1", "loop", "ram"
IoNames ==
    {<< >>, <<115, 100, 97>>, <<115, 100, 97, 49>>, LoopPrefix, RamPrefix}

IoRows ==
    {l \in [ids_ok : BOOLEAN, name : IoNames, cols : RowCols] :
        /\ ~l.ids_ok => l.name = << >>
        /\ l.name = << >> => l.cols = << >>}

TableInit ==
    /\ CollInit
    /\ \/ coll \in [pc : {"start"}, fn : {"getNetworkInterfaces"},
                    src : NetTables, stack : Indeterminate, out : {<< >>}]
       \/ coll \in [pc : {"start"}, fn : {"getDiskIOStats"},
                    src : SeqsUpTo(IoRows, MaxRows), stack : Indeterminate,
                    out : {<< >>}]

N_getNetworkInterfaces ==
    /\ coll.pc = "start"
    /\ coll.fn = "getNetworkInterfaces"
    /\ coll' = [coll EXCEPT
                  !.pc = "done",
                  !.out = getNetworkInterfaces(coll.src, coll.stack)]
    /\ UNCHANGED <<cacheVars, probe, esc, cpu, doc>>

I_getDiskIOStats ==
    /\ coll.pc = "start"
    /\ coll.fn = "getDiskIOStats"
    /\ coll' = [coll EXCEPT
                  !.pc = "done",
                  !.out = getDiskIOStats(coll.src, coll.stack)]
    /\ UNCHANGED <<cacheVars, probe, esc, cpu, doc>>

TableSpec ==
    TableInit /\ [][N_getNetworkInterfaces \/ I_getDiskIOStats]_vars

\* the pieces of a status text: "(", ")", "healthy", "unhealthy", "health:",
\* "Up", "0", " "
StatusPieces ==
    {<<40>>, <<41>>, HealthyText, UnhealthyText, HealthPrefix, <<85, 112>>,
     <<48>>, <<32>>}

RECURSIVE Flatten(_)
Flatten(ps) == IF ps = << >> THEN << >> ELSE Head(ps) \o Flatten(Tail(ps))

StatusTexts == {Flatten(ps) : ps \in SeqsUpTo(StatusPieces, MaxParts)}

HealthInit ==
    /\ CollInit
    /\ coll \in [pc : {"start"}, fn : {"extractHealth"}, src : StatusTexts,
                 stack : {0}, out : {""}]

\* c.health = extractHealth(c.status)
X_extractHealth ==
    /\ coll.pc = "start"
    /\ coll.fn = "extractHealth"
    /\ coll' = [coll EXCEPT !.pc = "done", !.out = extractHealth(coll.src)]
    /\ UNCHANGED <<cacheVars, probe, esc, cpu, doc>>

HealthSpec == HealthInit /\ [][X_extractHealth]_vars

\* ------------------------------------------------------------------------
\* Two calls of getHealthJson one after the other, the sources unchanged
\* ------------------------------------------------------------------------

\* /proc/net/dev: unreadable; "e:" with its ten counters; a blank line
AgainNetdev ==
    {<< >>,
     <<NetHeader, NetHeader, [name |-> <<101, 58>>, cols |-> Counters]>>,
     <<NetHeader, NetHeader, [name |-> << >>, cols |-> << >>]>>}

AgainSources ==
    {[s EXCEPT !.netdev = n, !.stack = g] :
        s \in DocSources, n \in AgainNetdev, g \in Indeterminate}

AgainInit ==
    /\ s_speedMutex = Free
    /\ gmtimeBuf = [tm |-> 0, by |-> "nobody"]
    /\ rpc = "sleep"
    /\ res = SpeedTestResult
    /\ hpc = [h \in Handlers |-> "idle"]
    /\ speed = [h \in Handlers |-> SpeedTestResult]
    /\ snap = [h \in Handlers |-> SpeedTestResult]
    /\ s_speedResult \in {SpeedTestResult, MeasuredCache}
    /\ lastStored = s_speedResult
    /\ written = (s_speedResult # SpeedTestResult)
    /\ ProbeIdle
    /\ EscIdle
    /\ CpuIdle
    /\ CollIdle
    /\ doc \in [pc : {"start"}, src : AgainSources, tm : 1..MaxTime,
                members : {<< >>}, before : {<< >>}]

\* the next request: the files and the cache hold what they held, the clock
\* and the unassigned longs of the new call hold anything
G_getHealthJsonAgain ==
    /\ doc.pc = "done"
    /\ \E tm \in 1..MaxTime, g \in Indeterminate :
          LET j == getHealthJson([doc.src EXCEPT !.stack = g],
                                 s_speedResult, tm)
          IN  /\ ~j.aborted
              /\ doc' = [doc EXCEPT !.pc = "again", !.tm = tm,
                                    !.before = doc.members,
                                    !.members = j.members]
              /\ gmtimeBuf' = [tm |-> tm, by |-> "h2"]
    /\ UNCHANGED <<s_speedResult, s_speedMutex, rpc, res, hpc, speed,
                   written, lastStored, snap, probe, esc, cpu, coll>>

AgainSpec ==
    AgainInit /\ [][G_getHealthJson \/ G_getHealthJsonAgain]_vars

\* the handler has made its copy: speed[h] is what it will serialize
Copied(h) == hpc[h] \in {"unlock", "gmtime", "strftime"}

\* ------------------------------------------------------------------------
\* Claims
\* ------------------------------------------------------------------------

\* C1: the tuple a request serializes is the value the cache held at the
\* instant of its copy, and that value is the initial one or the complete
\* result of one refresh cycle (the cache as the last complete store left
\* it), whatever the refresher and the other handlers do meanwhile.
C1_ReadIsOneStoredValue ==
    \A h \in Handlers :
        Copied(h) => InternetSpeedJson(speed[h]) = InternetSpeedJson(snap[h])

\* C1 witness: a handler holds a refreshed value while the refresher is in
\* the middle of storing the next one.
C1_Witness ==
    \E h \in Handlers :
        /\ hpc[h] = "strftime"
        /\ speed[h].available
        /\ rpc = "assign3"
        /\ s_speedResult # lastStored
        /\ s_speedResult.download_mbps # speed[h].download_mbps

\* C2: as long as the first refresh cycle has not stored its result, every
\* handler that has made its copy reports available=false and both rates 0.
C2_UnmeasuredUntilFirstStore ==
    ~written =>
        \A h \in Handlers :
            Copied(h) =>
                /\ InternetSpeedJson(speed[h]).available = "false"
                /\ InternetSpeedJson(speed[h]).download_mbps = 0
                /\ InternetSpeedJson(speed[h]).upload_mbps = 0

\* C2 witness: a handler made its copy and the first cycle is in the middle
\* of its store, a rate already written.
C2_Witness ==
    /\ ~written
    /\ rpc \in {"assign2", "assign3", "assign4"}
    /\ s_speedResult.download_mbps > 0
    /\ \E h \in Handlers : hpc[h] = "strftime"

\* C3: a step of a request handler leaves the cache as it was.
C3_HandlersLeaveCache ==
    [][hpc' # hpc => s_speedResult' = s_speedResult]_vars

\* C3 witness: a handler has copied a cache that a refresh cycle had filled.
C3_Witness ==
    \E h \in Handlers :
        /\ hpc[h] = "unlock"
        /\ written
        /\ s_speedResult.available
        /\ speed[h] = s_speedResult

\* the mutex is owned only inside the copy-out and the assignment
MutexScopedToCopy ==
    /\ s_speedMutex = speedThread =>
           rpc \in {"assign1", "assign2", "assign3", "assign4", "unlock"}
    /\ \A h \in Handlers : s_speedMutex = h => hpc[h] \in {"copy", "unlock"}

\* C4: the mutex is owned only inside the copy-out of getHealthJson and the
\* assignment of updateSpeedTestCache (never during the external commands,
\* the collectors' reads and sleep, or the hourly sleep), and a handler that
\* has finished its collectors gets the mutex and completes its copy, even
\* if the measurement of a refresh cycle never returns.
C4_MutexNeverHeldAcrossIO ==
    /\ []MutexScopedToCopy
    /\ \A h \in Handlers : (hpc[h] = "lock") ~> Copied(h)

\* C4 witness: a handler has made its copy while a measurement is running.
C4_Witness ==
    \E h \in Handlers :
        /\ hpc[h] = "unlock"
        /\ s_speedMutex = h
        /\ rpc = "measure"
        /\ written

\* C6: the first cycle starts at startup, the refresher thread never
\* terminates, and after every sleep it starts another cycle.
C6_RefresherKeepsCycling ==
    /\ rpc = "measure"
    /\ [](rpc # "terminated")
    /\ (rpc = "sleep") ~> (rpc = "measure")

\* C6 witness: a cycle in which both methods failed is over and the
\* refresher sleeps.
C6_Witness ==
    /\ rpc = "sleep"
    /\ written
    /\ ~s_speedResult.available

\* C7 (as claimed): a thread formats its timestamp from a buffer no other
\* thread has written since it filled it.
C7_TimestampBufferPrivate ==
    /\ rpc = "strftime" => gmtimeBuf.by = speedThread
    /\ \A h \in Handlers : hpc[h] = "strftime" => gmtimeBuf.by = h

\* a positive rate among the numbers the two tools printed
PrintedUsableRate(p) ==
    \/ /\ p.found
       /\ \E i \in DOMAIN p.out :
             /\ p.out[i].key \in {"Download:", "Upload:"}
             /\ p.out[i].val.ok
             /\ p.out[i].val.v > 0
    \/ p.curl.kind = "number" /\ p.curl.v > 0

\* C5 (as claimed): after a cycle in which neither tool printed a usable
\* (positive) rate, the cache holds available=false and both rates 0,
\* whatever else the primary tool printed and whatever the cache held before.
C5_FailedCycleZeroesCache ==
    (probe.pc = "done" /\ ~PrintedUsableRate(probe)) =>
        /\ s_speedResult.available = FALSE
        /\ s_speedResult.download_mbps = 0
        /\ s_speedResult.upload_mbps = 0

\* the body of a JSON string: no control character, no bare quote, and a
\* backslash only before one of " \ / b f n r t
JsonEscapes == {Quote, Backslash, 47, 98, 102, LetterN, 114, 116}

RECURSIVE JsonStringBody(_)
JsonStringBody(s) ==
    IF s = << >> THEN TRUE
    ELSE IF Head(s) < 32 \/ Head(s) = Quote THEN FALSE
    ELSE IF Head(s) = Backslash
      THEN /\ Len(s) >= 2
           /\ s[2] \in JsonEscapes
           /\ JsonStringBody(SubSeq(s, 3, Len(s)))
    ELSE JsonStringBody(Tail(s))

\* C9 (as claimed): what escapeJson returns is the body of a JSON string: no
\* raw control character, no unescaped quote, no stray backslash.
C9_EscapedIsJsonStringBody ==
    esc.pc = "done" => JsonStringBody(esc.out)

\* the sum of the counters of a sample, by position
RECURSIVE SumTo(_, _)
SumTo(v, n) == IF n = 0 THEN 0 ELSE v[n] + SumTo(v, n - 1)

\* C10: when both samples have at least 4 counters and total2 - total1 > 0,
\* idle_percent is 100 * (idle2 - idle1) / (total2 - total1), idle being the
\* fourth counter and total the sum of all of them, usage_percent is
\* 100 - idle_percent, and the two add up to 100.
C10_CpuPercentages ==
    LET v1 == cpu.v1
        v2 == cpu.v2
        dt == SumTo(v2, Len(v2)) - SumTo(v1, Len(v1))
        idle == cpu.info.idle_percent
        usage == cpu.info.usage_percent
    IN  (cpu.pc = "done" /\ Len(v1) >= 4 /\ Len(v2) >= 4 /\ dt > 0) =>
            /\ idle.den > 0 /\ usage.den > 0
            /\ idle.num * dt = 100 * (v2[4] - v1[4]) * idle.den
            /\ usage.num * idle.den = (100 * idle.den - idle.num) * usage.den
            /\ usage.num * idle.den + idle.num * usage.den
                   = 100 * usage.den * idle.den

\* C10 witness: samples of 4 and 5 counters, the CPU partly idle.
C10_Witness ==
    /\ cpu.pc = "done"
    /\ Len(cpu.v1) = 4 /\ Len(cpu.v2) = 5
    /\ Total(cpu.v2) - Total(cpu.v1) > 1
    /\ cpu.info.idle_percent.num > 0
    /\ cpu.info.usage_percent.num > 0

\* the members of the document whose key is k
MembersOf(k) == {i \in DOMAIN doc.members : doc.members[i].key = k}

RequiredKeys ==
    {"timestamp", "cpu", "memory", "disks", "network", "disk_io",
     "temperature", "internet_speed"}

\* the key of the member to which each source contributes
Unavailable ==
    [cpu |-> doc.src.stat = << << >>, << >> >>,
     memory |-> doc.src.meminfo = << >>,
     disks |-> doc.src.mounts = << >>,
     network |-> doc.src.netdev = << >>,
     disk_io |-> doc.src.diskstats = << >>,
     temperature |-> ~doc.src.thermal.ok,
     docker |-> ~doc.src.docker.popen,
     internet_speed |-> ~s_speedResult.available]

\* what an unavailable source contributes
ZeroValue ==
    [cpu |-> CpuInfo, memory |-> MemoryInfo, disks |-> << >>,
     network |-> << >>, disk_io |-> << >>, temperature |-> << >>,
     docker |-> << >>]

\* C8: whatever the sources hold, getHealthJson returns a document with each
\* of the keys timestamp, cpu, memory, disks, network, disk_io, temperature
\* and internet_speed exactly once, and a source that is unavailable
\* contributes zeros or an empty array (the unmeasured cache: available
\* false, both rates 0).
C8_DocumentAlwaysComplete ==
    doc.pc \notin {"idle", "start"} =>
        /\ doc.pc = "done"
        /\ \A k \in RequiredKeys : Cardinality(MembersOf(k)) = 1
        /\ \A k \in DOMAIN ZeroValue :
              Unavailable[k] =>
                  \A i \in MembersOf(k) : doc.members[i].value = ZeroValue[k]
        /\ ~written =>
              \A i \in MembersOf("internet_speed") :
                  /\ doc.members[i].value.available = "false"
                  /\ doc.members[i].value.download_mbps = 0
                  /\ doc.members[i].value.upload_mbps = 0

C8_Witness ==
    /\ doc.pc = "done"
    /\ Unavailable.temperature /\ Unavailable.disks /\ Unavailable.docker
    /\ ~Unavailable.cpu /\ ~Unavailable.network
    /\ Unavailable.internet_speed

\* C11: when total2 - total1 <= 0, or a sample has fewer than 4 counters (an
\* unreadable or empty /proc/stat gives none), getCpuInfo returns
\* usage_percent = 0 and idle_percent = 0.
C11_CpuZeroOnAnomaly ==
    LET v1 == cpu.v1
        v2 == cpu.v2
        dt == SumTo(v2, Len(v2)) - SumTo(v1, Len(v1))
    IN  (cpu.pc = "done" /\ (Len(v1) < 4 \/ Len(v2) < 4 \/ dt <= 0)) =>
            /\ cpu.info.usage_percent.num = 0
            /\ cpu.info.idle_percent.num = 0

\* C11 witness: two full samples whose total went down while idle went up.
C11_Witness ==
    /\ cpu.pc = "done"
    /\ Len(cpu.v1) >= 4 /\ Len(cpu.v2) >= 4
    /\ Total(cpu.v2) - Total(cpu.v1) < 0
    /\ cpu.v2[4] > cpu.v1[4]
    /\ cpu.info = CpuInfo

\* a/b within 0..100, b > 0
InPercentRange(r) == r.den > 0 /\ 0 <= r.num /\ r.num <= 100 * r.den

\* C12 (as claimed): for every pair of samples of non-negative counters both
\* percentages getCpuInfo returns are within 0..100.
C12_CpuPercentagesInRange ==
    cpu.pc = "done" =>
        /\ InPercentRange(cpu.info.usage_percent)
        /\ InPercentRange(cpu.info.idle_percent)

\* the last line of /proc/meminfo whose key is k, 0 when there is none
LastLine(k) ==
    LET S == {i \in DOMAIN coll.src : coll.src[i].key = k}
    IN  IF S = {} THEN 0 ELSE CHOOSE i \in S : \A j \in S : j <= i

\* the field's line is missing (field 0) or carries the number the field has
IsValueOf(k, field) ==
    LET i == LastLine(k)
    IN  /\ i = 0 => field = 0
        /\ (i > 0 /\ coll.src[i].cols # << >> /\ coll.src[i].cols[1].ok)
               => field = coll.src[i].cols[1].v

\* C13: for every memory source getMemoryInfo returns used_kb = total_kb -
\* free_kb and usage_percent = 100 * (total_kb - available_kb) / total_kb when
\* total_kb > 0 and 0 otherwise; each of total_kb, free_kb, available_kb is
\* the number on its line, or 0 when the key is missing or the file
\* unreadable; lines with other keys change nothing.
C13_MemoryInfo ==
    (coll.pc = "done" /\ coll.fn = "getMemoryInfo") =>
        LET m == coll.out
        IN  /\ m.used_kb = m.total_kb - m.free_kb
            /\ m.usage_percent.den > 0
            /\ m.total_kb > 0 =>
                  m.usage_percent.num * m.total_kb
                      = 100 * (m.total_kb - m.available_kb)
                            * m.usage_percent.den
            /\ m.total_kb <= 0 => m.usage_percent.num = 0
            /\ IsValueOf("MemTotal:", m.total_kb)
            /\ IsValueOf("MemFree:", m.free_kb)
            /\ IsValueOf("MemAvailable:", m.available_kb)

\* C13 witness: total 2 and available 1 (usage 50), no MemFree line, and a
\* line with another key.
C13_Witness ==
    /\ coll.pc = "done" /\ coll.fn = "getMemoryInfo"
    /\ LastLine("MemFree:") = 0 /\ LastLine("Cached:") > 0
    /\ coll.out.total_kb = 2 /\ coll.out.available_kb = 1
    /\ coll.out.used_kb = 2
    /\ coll.out.usage_percent = Rat(100, 2)

\* a line of /proc/mounts that may give an entry
MayBeListed(m) ==
    /\ m.fstype \notin {"proc", "sysfs", "tmpfs", "devtmpfs", "cgroup",
                        "cgroup2", "devpts", "overlay", "none"}
    /\ Len(m.dev) >= 5
    /\ \A i \in 1..5 : m.dev[i] = <<47, 100, 101, 118, 47>>[i]

\* C14: whatever the length and order of the mount table, every entry
\* getDiskInfo returns comes from a line whose type is not in the deny-list
\* and whose device starts with "/dev/" (the entries are those of such lines
\* on which statvfs succeeds, in order), and an entry with total_kb = 0 has
\* usage_percent = 0.
C14_DiskFilter ==
    (coll.pc = "done" /\ coll.fn = "getDiskInfo") =>
        LET kept == SelectSeq(coll.src.mounts,
                              LAMBDA m : MayBeListed(m) /\ m.st.rc = 0)
            out == coll.out.result
        IN  /\ Len(out) = Len(kept)
            /\ \A k \in DOMAIN out :
                  /\ out[k].path = kept[k].mount
                  /\ out[k].usage_percent.den > 0
                  /\ out[k].total_kb = 0 => out[k].usage_percent.num = 0

\* C14 witness: two lines, one of them skipped for its device, the other
\* listed with a total of 0 kB.
C14_Witness ==
    /\ coll.pc = "done" /\ coll.fn = "getDiskInfo"
    /\ Len(coll.src.mounts) = 2
    /\ coll.src.mounts[1].fstype = "ext4"
    /\ coll.src.mounts[1].dev = <<97, 47, 100, 101, 118, 47>>
    /\ coll.src.mounts[1].st.rc = 0
    /\ Len(coll.out.result) = 1
    /\ coll.out.result[1].total_kb = 0

\* the mount points for which getDiskInfo queries statvfs
QueriedMounts ==
    LET q == SelectSeq(coll.src.mounts, MayBeListed)
    IN  [i \in DOMAIN q |-> q[i].mount]

\* C18 (as claimed): with HOST_ROOT_PATH set to a non-empty prefix the path
\* getDiskInfo passes to statvfs is the prefix followed by the mount point;
\* with it empty or unset, the mount point itself.
C18_HostRootPrefix ==
    (coll.pc = "done" /\ coll.fn = "getDiskInfo") =>
        LET root == coll.src.env.HOST_ROOT_PATH
        IN  /\ Len(coll.out.statvfs) = Len(QueriedMounts)
            /\ \A i \in DOMAIN QueriedMounts :
                  coll.out.statvfs[i] =
                      IF root.set /\ root.val # << >>
                      THEN root.val \o QueriedMounts[i]
                      ELSE QueriedMounts[i]

\* the interface a line of /proc/net/dev is about: its text before the colon
InterfaceOf(name) ==
    LET colons == {i \in DOMAIN name : name[i] = 58}
    IN  IF colons = {} THEN name
        ELSE SubSeq(name, 1, (CHOOSE i \in colons :
                                 \A j \in colons : i <= j) - 1)

\* C15 (as claimed): getNetworkInterfaces returns no entry for the interface
\* "lo", wherever its line is after the two header lines and however the
\* line is formatted.
C15_NoLoopbackEntry ==
    (coll.pc = "done" /\ coll.fn = "getNetworkInterfaces") =>
        \A k \in DOMAIN coll.out : InterfaceOf(coll.out[k].name) # <<108, 111>>

\* the numbers the lines of the table hold
NumbersInSource ==
    UNION {{coll.src[i].cols[j].v :
               j \in {n \in DOMAIN coll.src[i].cols :
                          coll.src[i].cols[n].ok}} :
           i \in DOMAIN coll.src}

CountersOf(e) ==
    IF coll.fn = "getNetworkInterfaces"
    THEN {e.rx_bytes, e.rx_packets, e.tx_bytes, e.tx_packets}
    ELSE {e.reads_completed, e.read_sectors, e.writes_completed,
          e.write_sectors}

\* C19 (as claimed): for a malformed line of /proc/net/dev or
\* /proc/diskstats the collector emits no entry, or an entry whose counters
\* that could not be parsed are 0: every emitted counter is 0 or a number the
\* source holds.
C19_MalformedRowsGiveZero ==
    (coll.pc = "done"
        /\ coll.fn \in {"getNetworkInterfaces", "getDiskIOStats"}) =>
        \A k \in DOMAIN coll.out :
            CountersOf(coll.out[k]) \subseteq {0} \cup NumbersInSource

\* the text s holds the text p
Contains(s, p) ==
    \E i \in 1..(Len(s) - Len(p) + 1) : SubSeq(s, i, i + Len(p) - 1) = p

\* the text s holds a group "(health:...)"
ContainsStartingGroup(s) ==
    \E i \in DOMAIN s :
        /\ s[i] = 40
        /\ SubSeq(s, i + 1, i + 7) = <<104, 101, 97, 108, 116, 104, 58>>
        /\ \E j \in (i + 8)..Len(s) : s[j] = 41

\* C16 (as claimed): the health tag of a status text is one of healthy,
\* unhealthy, starting, none; healthy only when the text holds "(healthy)",
\* unhealthy only when it holds "(unhealthy)", starting only when it holds a
\* parenthesized group that begins with "health:", and none when it holds no
\* parenthesis.
C16_HealthTag ==
    (coll.pc = "done" /\ coll.fn = "extractHealth") =>
        /\ coll.out \in {"healthy", "unhealthy", "starting", "none"}
        /\ coll.out = "healthy" =>
              Contains(coll.src,
                       <<40, 104, 101, 97, 108, 116, 104, 121, 41>>)
        /\ coll.out = "unhealthy" =>
              Contains(coll.src,
                       <<40, 117, 110, 104, 101, 97, 108, 116, 104, 121, 41>>)
        /\ coll.out = "starting" => ContainsStartingGroup(coll.src)
        /\ ~Contains(coll.src, <<40>>) => coll.out = "none"

\* C17 (as claimed): two calls of getHealthJson one after the other, the
\* sources the same and no refresh between them, return documents equal in
\* every field but timestamp.
C17_SecondCallSameDocument ==
    doc.pc = "again" =>
        /\ Len(doc.members) = Len(doc.before)
        /\ \A i \in DOMAIN doc.members :
              /\ doc.members[i].key = doc.before[i].key
              /\ doc.members[i].key # "timestamp" =>
                    doc.members[i].value = doc.before[i].value

\* available implies a rate above 0
HasRate(r) == r.available => (r.download_mbps > 0 \/ r.upload_mbps > 0)

\* C20: whatever the cycles run so far and their outcomes, the cache (outside
\* the refresher's store, which the mutex hides) and every copy a handler
\* made of it have available = true only with download_mbps > 0 or
\* upload_mbps > 0.
C20_AvailableHasRate ==
    /\ s_speedMutex # speedThread => HasRate(s_speedResult)
    /\ \A h \in Handlers : HasRate(speed[h])

\* C20 witness: the cache holds a measured upload rate and no download rate,
\* and a handler has copied it.
C20_Witness ==
    /\ s_speedMutex = Free
    /\ s_speedResult.available
    /\ s_speedResult.download_mbps = 0
    /\ s_speedResult.upload_mbps > 0
    /\ \E h \in Handlers : speed[h] = s_speedResult

====
